---- MODULE Spec2Model ----
(***************************************************************************)
(* Model of the UV-vis analysis tool: finalprojectlib.py (fileParser,      *)
(* seriesFormat, DataWrapper) and the Streamlit script mainGUI.py.         *)
(*                                                                         *)
(* Floating-point numbers are modelled as exact extended rationals         *)
(* <<n, d>>: d > 0 is the reduced fraction n/d, <<1,0>> is +inf,           *)
(* <<-1,0>> is -inf and <<0,0>> is NaN (IEEE rules, signed zero            *)
(* identified with zero).  Rounding is not modelled.                       *)
(***************************************************************************)
EXTENDS Integers, Sequences, FiniteSets, TLC

\* ------------------------------------------------------------------ bounds
\* Most data rows (after the header row) of one worksheet.
MaxRows == 2

\* ----------------------------------------------------------------- numbers
RECURSIVE Gcd(_, _)
Gcd(a, b) == IF b = 0 THEN a ELSE Gcd(b, a % b)

Abs(a) == IF a < 0 THEN -a ELSE a

Sign(a) == IF a < 0 THEN -1 ELSE IF a > 0 THEN 1 ELSE 0

\* The canonical form of the fraction n/d (d may be negative or 0).
Norm(n, d) ==
    IF d = 0 THEN <<Sign(n), 0>>
    ELSE LET g == Gcd(Abs(n), Abs(d))
         IN  <<Sign(d) * (n \div g), Abs(d) \div g>>

NaN == <<0, 0>>
PosInf == <<1, 0>>
NegInf == <<-1, 0>>
FromInt(k) == <<k, 1>>

isnan(a) == a = NaN

\* IEEE comparison a < b: false when either side is NaN.
NumLt(a, b) ==
    /\ ~isnan(a)
    /\ ~isnan(b)
    /\ IF a[2] = 0 /\ b[2] = 0 THEN a[1] < b[1]
       ELSE IF a[2] = 0 THEN a[1] < 0
       ELSE IF b[2] = 0 THEN b[1] > 0
       ELSE a[1] * b[2] < b[1] * a[2]

\* a / b on floats: x/0 is +-inf, 0/0 and inf/inf are nan, no exception.
NumDiv(a, b) ==
    IF isnan(a) \/ isnan(b) THEN NaN
    ELSE IF a[2] = 0 /\ b[2] = 0 THEN NaN
    ELSE IF a[2] = 0 THEN <<a[1] * (IF b[1] < 0 THEN -1 ELSE 1), 0>>
    ELSE IF b[2] = 0 THEN <<0, 1>>
    ELSE Norm(a[1] * b[2], a[2] * b[1])

\* a - b on floats: inf - inf is nan.
NumSub(a, b) ==
    IF isnan(a) \/ isnan(b) THEN NaN
    ELSE IF a[2] = 0 /\ b[2] = 0 THEN (IF a[1] = b[1] THEN NaN ELSE a)
    ELSE IF a[2] = 0 THEN a
    ELSE IF b[2] = 0 THEN <<-b[1], 0>>
    ELSE Norm(a[1] * b[2] - b[1] * a[2], a[2] * b[2])

\* --------------------------------------------------------------- documents
\* A cell holding no Data element: cell.find(...) returns None.
NoData == "<no Data element>"

\* The placeholder fileParser stores for a row that fails coercion.
BADROW == "BAD ROW"

\* A local variable that has not been assigned yet.
Unbound == "<unbound>"

\* Optional values: None is <<>>, a present value v is <<v>>.  A DataWrapper
\* attribute that was never set reads as None (__getattr__).
None == <<>>
Some(v) == <<v>>

\* int(text) succeeds exactly on these texts.
IntTexts == {"1", "2", "3"}

IntOf(t) == CASE t = "1" -> 1 [] t = "2" -> 2 [] t = "3" -> 3

\* float(text) succeeds on the integer texts, on decimals and on "nan".
FloatTexts == IntTexts \cup {"4", "nan", "-0.5"}

FloatOf(t) ==
    CASE t = "nan" -> NaN
      [] t = "4" -> FromInt(4)
      [] t = "-0.5" -> <<-1, 2>>
      [] OTHER -> FromInt(IntOf(t))

\* The data rows a worksheet is made of (cell texts, left to right).
RowKinds ==
    { <<"1", "2", "a">>,        \* good row, names the series "a"
      <<"2", "nan", "b">>,      \* good row, absorbance nan
      <<"3", "1">>,             \* two cells only
      <<"1", "x", "a">>,        \* absorbance is not a number
      <<"x", "2", "b">>,        \* wavelength is not an integer
      <<"2", "1", NoData>>,     \* the name cell holds no Data element
      <<"1">> }                 \* one cell only

HeaderRow == <<"wavelength", "absorbance", "name">>

RECURSIVE SeqsUpTo(_, _)
SeqsUpTo(S, n) ==
    IF n = 0 THEN {<<>>}
    ELSE LET shorter == SeqsUpTo(S, n - 1)
         IN  shorter \cup {Append(s, e) : s \in {t \in shorter : Len(t) = n - 1}, e \in S}

\* A worksheet: the header row, then up to MaxRows data rows.
Worksheets == {<<HeaderRow>> \o rows : rows \in SeqsUpTo(RowKinds, MaxRows)}

SheetCounts == {1, 2}

\* A document: its byte identity, whether it is well-formed XML, its worksheets.
MkDoc(id, wf, sheets) == [id |-> id, wellFormed |-> wf, sheets |-> sheets]

MalformedDoc == MkDoc(<<"malformed", <<>>>>, FALSE, <<>>)

\* -------------------------------------------------------------- fileParser
Tail1(s) == IF Len(s) = 0 THEN <<>> ELSE Tail(s)

\* The try block of one row: int(wl.text), float(absorb.text), str(name.text).
RowCoerces(wl, absorb, name) ==
    /\ wl # NoData /\ wl \in IntTexts
    /\ absorb # NoData /\ absorb \in FloatTexts
    /\ name # NoData

\* Python list elements are tagged with their type: <<"int", 3>>,
\* <<"float", <<1, 2>>>>, <<"str", "BAD ROW">>.
PyInt(k) == <<"int", k>>
PyFloat(v) == <<"float", v>>
PyStr(s) == <<"str", s>>

\* str(element) as numpy renders it when an array holds a string.
ElemToStr(e) ==
    IF e[1] = "str" THEN e[2]
    ELSE IF e[1] = "int"
    THEN (CASE e[2] = 1 -> "1" [] e[2] = 2 -> "2" [] OTHER -> "3")
    ELSE (CASE e[2] = NaN -> "nan" [] e[2] = FromInt(1) -> "1.0"
            [] e[2] = FromInt(2) -> "2.0" [] e[2] = FromInt(3) -> "3.0"
            [] OTHER -> "4.0")

\* np.array(list): a numeric list gives a numeric array; one string element
\* makes it an array of strings.
NpArray(list) ==
    IF \E k \in 1..Len(list) : list[k][1] = "str"
    THEN [k \in 1..Len(list) |-> ElemToStr(list[k])]
    ELSE [k \in 1..Len(list) |-> list[k][2]]

\* The loop over the data rows of one worksheet, from row i on (i counts from
\* 0 as enumerate does).  st carries the locals: wlList, absList, name,
\* nameValue, err.
RECURSIVE ParseRows(_, _, _)
ParseRows(rows, i, st) ==
    IF i >= Len(rows) \/ st.err # "none" THEN st
    ELSE LET cells == rows[i + 1]
         IN  IF Len(cells) < 2 THEN [st EXCEPT !.err = "IndexError"]
             ELSE IF i = 0 /\ Len(cells) < 3 THEN [st EXCEPT !.err = "IndexError"]
             ELSE LET wl == cells[1]
                      absorb == cells[2]
                      name == IF i = 0 THEN cells[3] ELSE st.name
                      good == RowCoerces(wl, absorb, name)
                  IN  ParseRows(rows, i + 1,
                        [st EXCEPT
                           !.name = name,
                           !.nameValue = IF good THEN name ELSE @,
                           !.wlList = Append(@, IF good THEN PyInt(IntOf(wl))
                                                ELSE PyStr(BADROW)),
                           !.absList = Append(@, IF good THEN PyFloat(FloatOf(absorb))
                                                 ELSE PyStr(BADROW))])

\* The loop over the worksheets; acc carries wavelengths, absorbances, names
\* and the function-level local nameValue, which survives from one worksheet
\* to the next.
RECURSIVE ParseSheets(_, _, _)
ParseSheets(sheets, k, acc) ==
    IF k > Len(sheets) \/ acc.err # "none" THEN acc
    ELSE LET r == ParseRows(Tail1(sheets[k]), 0,
                    [wlList |-> <<>>, absList |-> <<>>, name |-> Unbound,
                     nameValue |-> acc.nameValue, err |-> "none"])
         IN  IF r.err # "none" THEN [acc EXCEPT !.err = r.err]
             ELSE IF r.nameValue = Unbound THEN [acc EXCEPT !.err = "UnboundLocalError"]
             ELSE ParseSheets(sheets, k + 1,
                    [acc EXCEPT
                       !.wavelengths = Append(@, NpArray(r.wlList)),
                       !.absorbances = Append(@, NpArray(r.absList)),
                       !.names = Append(@, r.nameValue),
                       !.nameValue = r.nameValue])

\* fileParser(file): err is "none" when it returns, else the exception raised.
fileParser(doc) ==
    IF ~doc.wellFormed
    THEN [err |-> "ParseError", wavelengths |-> <<>>, absorbances |-> <<>>,
          names |-> <<>>, nameValue |-> Unbound]
    ELSE ParseSheets(doc.sheets, 1,
           [err |-> "none", wavelengths |-> <<>>, absorbances |-> <<>>,
            names |-> <<>>, nameValue |-> Unbound])

\* ------------------------------------------------------------ seriesFormat
\* Parameters of one call: xRange is None or Some(<<lo, hi>>); normRange is
\* <<"none">>, <<"one", <<lo, hi>>>> (one range for all traces) or
\* <<"each", <<r1, r2, ...>>>> (one range per trace); inclusion is None or
\* Some(mask).
MkParams(xr, nz, nm, nr, xt, inc) ==
    [xRange |-> xr, normalize |-> nz, normMethod |-> nm, normRange |-> nr,
     xType |-> xt, inclusion |-> inc]

\* A variant of the plot range mask that includes the upper bound.
RangeMask_UpperIncluded(wl, xRange) ==
    [j \in 1..Len(wl) |->
       xRange = None \/ (wl[j] >= xRange[1][1] /\ wl[j] <= xRange[1][2])]

\* The boolean mask of one trace for the plot range (lower bound inclusive,
\* upper bound exclusive); all True without a range.
RangeMask(wl, xRange) ==
    [j \in 1..Len(wl) |->
       IF xRange = None THEN TRUE
       ELSE wl[j] >= xRange[1][1] /\ wl[j] < xRange[1][2]]

\* The upper-bound test of the normalization mask of trace i (counted from 1).
\* With one range for all traces the first trace is tested while normRange is
\* still the pair (wl <= hi); the loop then rebinds normRange to a list of
\* pairs, and every later trace takes the per-trace branch (wl < hi).
NormUpperOk(i, kind, w, hi) ==
    IF kind = "one" /\ i = 1 THEN w <= hi ELSE w < hi

\* normRange[i] after the mask loop (the rebound list of pairs).
NormRangeOf(normRange, i) ==
    IF normRange[1] = "one" THEN normRange[2] ELSE normRange[2][i]

\* A variant of the normalization mask that falls back to the whole trace
\* when no point lies in the window.
NormMask_WholeWhenEmpty(i, wl, normRange) ==
    LET r == NormRangeOf(normRange, i)
        inside == {j \in 1..Len(wl) :
                     normRange[1] = "none" \/ (wl[j] >= r[1] /\ wl[j] < r[2])}
    IN  [j \in 1..Len(wl) |-> inside = {} \/ j \in inside]

NormMask(i, wl, normRange) ==
    [j \in 1..Len(wl) |->
       IF normRange[1] = "none" THEN TRUE
       ELSE LET r == NormRangeOf(normRange, i)
            IN  wl[j] >= r[1] /\ NormUpperOk(i, normRange[1], wl[j], r[2])]

\* ndarray.max() of the values at the positions in sel (sel is not empty).
MaxOf(absorb, sel) ==
    LET m == CHOOSE a \in sel : \A b \in sel : ~NumLt(absorb[a], absorb[b])
    IN  absorb[m]

\* The normalization method applied to one value.
Scale(normMethod, v, maxAbsorb) ==
    IF normMethod = "maxdiv" THEN NumDiv(v, maxAbsorb)
    ELSE IF normMethod = "maxminus" THEN NumSub(v, maxAbsorb)
    ELSE v

\* A variant of the normalization that leaves the first point of the trace as
\* it was.
ScaleTrace_FirstKept(normMethod, absorb, maxAbsorb) ==
    [j \in 1..Len(absorb) |->
       IF j = 1 THEN absorb[j] ELSE Scale(normMethod, absorb[j], maxAbsorb)]

\* absorbances[i] after normalization: every element of the trace is scaled.
ScaleTrace(normMethod, absorb, maxAbsorb) ==
    [j \in 1..Len(absorb) |-> Scale(normMethod, absorb[j], maxAbsorb)]

\* The test that accepts the wavelength found by np.where as the peak.
PeakAccepted(normRange, i, w) ==
    \/ normRange[1] = "none"
    \/ LET r == NormRangeOf(normRange, i) IN w >= r[1] /\ w < r[2]

\* The normalization loop from trace i on.  st carries absorbances (written in
\* place), the local maxWL (None while unbound), maxWLs and err.
RECURSIVE NormLoop(_, _, _, _, _)
NormLoop(i, wavelengths, normMasks, p, st) ==
    IF i > Len(wavelengths) \/ st.err # "none" THEN st
    ELSE LET absorb == st.absorbances[i]
             sel == {j \in 1..Len(absorb) : normMasks[i][j] /\ ~isnan(absorb[j])}
         IN  IF sel = {} THEN [st EXCEPT !.err = "ValueError"]
             ELSE LET maxAbsorb == MaxOf(absorb, sel)
                      scaled == [st EXCEPT !.absorbances[i] =
                                   ScaleTrace(p.normMethod, absorb, maxAbsorb)]
                      index == {j \in 1..Len(absorb) : absorb[j] = maxAbsorb}
                  IN  IF Cardinality(index) # 1
                      THEN [scaled EXCEPT !.err = "ValueError"]
                      ELSE LET w == wavelengths[i][CHOOSE j \in index : TRUE]
                               maxWL == IF PeakAccepted(p.normRange, i, w)
                                        THEN Some(w) ELSE st.maxWL
                           IN  IF maxWL = None
                               THEN [scaled EXCEPT !.err = "UnboundLocalError"]
                               ELSE NormLoop(i + 1, wavelengths, normMasks, p,
                                      [scaled EXCEPT !.maxWL = maxWL,
                                                     !.maxWLs = Append(@, maxWL[1])])

\* trace[mask]: the elements at the True positions, in order.
RECURSIVE Slice(_, _, _)
Slice(trace, mask, j) ==
    IF j > Len(trace) THEN <<>>
    ELSE (IF mask[j] THEN <<trace[j]>> ELSE <<>>) \o Slice(trace, mask, j + 1)

XTypes == {"wavelength", "wavenumbers", "joules", "electronvolts", "ev"}

\* The x-axis title of each xType.
AxisTitle(xType) ==
    CASE xType = "wavelength" -> "wavelength (nm)"
      [] xType = "wavenumbers" -> "wavenumbers (cm^-1)"
      [] xType = "joules" -> "energy (J)"
      [] OTHER -> "energy (eV)"

\* A physical quantity: a float kept as an exact fraction v times powers of
\* 10 and of the scipy constants h, c and e, so that a product or quotient of
\* the constants is the same number however it was parenthesized.
Quantity(v, ten, ph, pc, pe) == [v |-> v, ten |-> ten, h |-> ph, c |-> pc, e |-> pe]

QNum(v) == Quantity(v, 0, 0, 0, 0)

\* 10**k
TenTo(k) == Quantity(FromInt(1), k, 0, 0, 0)

\* scipy.constants h, c, e
PlanckH == Quantity(FromInt(1), 0, 1, 0, 0)
LightC == Quantity(FromInt(1), 0, 0, 1, 0)
ChargeE == Quantity(FromInt(1), 0, 0, 0, 1)

QMul(a, b) ==
    Quantity(Norm(a.v[1] * b.v[1], a.v[2] * b.v[2]),
             a.ten + b.ten, a.h + b.h, a.c + b.c, a.e + b.e)

QDiv(a, b) ==
    Quantity(NumDiv(a.v, b.v), a.ten - b.ten, a.h - b.h, a.c - b.c, a.e - b.e)

\* The powers of the constants in a quantity.
QUnit(a) == <<a.ten, a.h, a.c, a.e>>

\* a < b for two quantities.  The constants are positive, so quantities with
\* the same powers compare as their fractions do.
QLt(a, b) == NumLt(a.v, b.v)

\* The element-wise conversion seriesFormat applies to plotX for xType.
ConvertQ(xType, w) ==
    CASE xType = "wavelength" -> QNum(FromInt(w))
      [] xType = "wavenumbers" -> QDiv(TenTo(7), QNum(FromInt(w)))
      [] xType = "joules" ->
           QDiv(QMul(QMul(PlanckH, LightC), TenTo(-9)), QNum(FromInt(w)))
      [] OTHER ->
           QDiv(QMul(QMul(PlanckH, LightC), TenTo(9)),
                QMul(ChargeE, QNum(FromInt(w))))

\* One wavelength in the display unit.  Every unit but nm is K / wl for a
\* constant K of the unit (10^7, h*c*10^-9, h*c*10^9/e); the value is kept as
\* its coefficient 1/wl of K, the unit being named by the axis title.
ConvertX(xType, w) == ConvertQ(xType, w).v

\* The inclusion filter: zip(inclusion, series) keeps the traces whose flag is
\* True and stops at the shorter of the two.
RECURSIVE Included(_, _, _)
Included(inclusion, series, k) ==
    IF k > Len(inclusion) \/ k > Len(series) THEN <<>>
    ELSE (IF inclusion[k] THEN <<series[k]>> ELSE <<>>)
           \o Included(inclusion, series, k + 1)

\* The list of peak wavelengths seriesFormat returns: the filter loop skips
\* maxWLs (`if series is maxWLs: continue`), so it is returned whole.
ReturnedMaxWLs(inclusion, maxWLs) == maxWLs

\* seriesFormat(wavelengths, absorbances, **p).  err is "none" when it returns.
\* wavelengths and absorbances in the result are the caller's lists as the call
\* leaves them (it assigns to their elements).
seriesFormat(wavelengths, absorbances, p) ==
    LET n == Len(wavelengths)
        rangeMasks == [i \in 1..n |-> RangeMask(wavelengths[i], p.xRange)]
        normMasks == [i \in 1..n |-> NormMask(i, wavelengths[i], p.normRange)]
        st0 == [absorbances |-> absorbances, maxWL |-> None, maxWLs |-> <<>>,
                err |-> "none"]
        st == IF p.normalize THEN NormLoop(1, wavelengths, normMasks, p, st0) ELSE st0
        failed == [err |-> st.err, wavelengths |-> wavelengths,
                   absorbances |-> st.absorbances, plotX |-> None, plotY |-> None,
                   maxWLs |-> None, xAxisTitle |-> None]
    IN  IF st.err # "none" THEN failed
        ELSE LET wls == [i \in 1..n |-> Slice(wavelengths[i], rangeMasks[i], 1)]
                 abss == [i \in 1..n |-> Slice(st.absorbances[i], rangeMasks[i], 1)]
                 plotX0 == [i \in 1..n |->
                              [j \in 1..Len(wls[i]) |-> ConvertX(p.xType, wls[i][j])]]
                 maxWLs0 == IF p.normalize THEN Some(st.maxWLs) ELSE None
             IN  [err |-> "none", wavelengths |-> wls, absorbances |-> abss,
                  plotX |-> Some(IF p.inclusion = None THEN plotX0
                                 ELSE Included(p.inclusion[1], plotX0, 1)),
                  plotY |-> Some(IF p.inclusion = None THEN abss
                                 ELSE Included(p.inclusion[1], abss, 1)),
                  maxWLs |-> IF p.inclusion = None \/ maxWLs0 = None THEN maxWLs0
                             ELSE Some(ReturnedMaxWLs(p.inclusion[1], maxWLs0[1])),
                  xAxisTitle |-> Some(AxisTitle(p.xType))]

\* ------------------------------------------------------------- DataWrapper
VARIABLES raw, x, y, names, plotX, plotY, maxWLs, xAxisTitle, attrs, exc, nCalls

\* The Streamlit process: the file each session's uploader holds, each
\* session's "Normalize?" toggle, each session's own session state (what the
\* streamlit module's session_state attribute first refers to), the object the
\* attribute refers to once the script has assigned to it (None before),
\* the dataWrapper of each session's last script run, and the digest of the
\* bytes each session uploaded last (None before its first upload).
VARIABLES upload, normalizeToggle, ssProxy, ssShared, dataWrapper, lastHash

\* The unit conversions of mainGUI.py: the last call made (None before the
\* first) and what it returned or raised.
VARIABLES unitCall, unitResult

\* DataWrapper.titles (None until setPlotTitles has run) and the Plotter made
\* for the DataWrapper (None until Plotter(...) has returned).
VARIABLES titles, plotter

\* Plotter.mainFig: the traces of the main plot (None until updateMainPlot
\* has run).
VARIABLES mainFig

\* The main plot tab: the unit each session's selectbox holds, and the
\* arguments of the last formatData call a main plot tab made (None before).
VARIABLES unitsSelection, mainCall

wrapperVars == <<raw, x, y, names, plotX, plotY, maxWLs, xAxisTitle, attrs, exc, nCalls>>

guiVars == <<upload, normalizeToggle, ssProxy, ssShared, dataWrapper, lastHash>>

unitVars == <<unitCall, unitResult>>

titleVars == <<titles, plotter, mainFig>>

mainVars == <<unitsSelection, mainCall>>

vars == <<wrapperVars, guiVars, unitVars, titleVars, mainVars>>

Sessions == {1, 2}

\* The trace positions of the largest uploaded dataset.
TraceIds == {1, 2}

\* A session state key that is not in the dictionary.
Absent == <<>>

\* A session state without keys.  raw is Absent, <<"None">> or a hash;
\* normRange[i] and include[i] are the keys normRange_i and include_i.
EmptyState ==
    [raw |-> Absent, includeList |-> Absent,
     normRange |-> [i \in TraceIds |-> Absent],
     include |-> [i \in TraceIds |-> Absent],
     minZero |-> Absent, mainRange |-> Absent, min_value |-> Absent,
     max_value |-> Absent, units |-> Absent]

\* No Streamlit session exists (the specifications of the library alone).
InitNoGui ==
    /\ upload = [s \in Sessions |-> None]
    /\ normalizeToggle = [s \in Sessions |-> TRUE]
    /\ ssProxy = [s \in Sessions |-> EmptyState]
    /\ ssShared = None
    /\ dataWrapper = [s \in Sessions |-> None]
    /\ lastHash = [s \in Sessions |-> None]
    /\ unitCall = None
    /\ unitResult = None
    /\ titles = None
    /\ plotter = None
    /\ mainFig = None
    /\ unitsSelection = [s \in Sessions |-> "wavelength"]
    /\ mainCall = None

\* DataWrapper(raw = file): every other attribute reads as None.  exc is the
\* exception that escaped the last call ("none" when it returned) and nCalls
\* counts the formatData calls made.
InitWrapper(docs) ==
    /\ raw \in docs
    /\ x = None
    /\ y = None
    /\ names = None
    /\ plotX = None
    /\ plotY = None
    /\ maxWLs = None
    /\ xAxisTitle = None
    /\ attrs = None
    /\ exc = "none"
    /\ nCalls = 0
    /\ InitNoGui

\* DataWrapper.parseData: the tuple assignment happens only when fileParser returns.
parseData ==
    /\ x = None
    /\ exc = "none"
    /\ LET r == fileParser(raw)
       IN  IF r.err = "none"
           THEN /\ x' = Some(r.wavelengths)
                /\ y' = Some(r.absorbances)
                /\ names' = Some(r.names)
                /\ exc' = "none"
           ELSE /\ exc' = r.err
                /\ UNCHANGED <<x, y, names>>
    /\ UNCHANGED <<raw, plotX, plotY, maxWLs, xAxisTitle, attrs, nCalls>>
    /\ UNCHANGED <<guiVars, unitVars, titleVars, mainVars>>

\* DataWrapper.formatData(**p): update(**p) stores the parameters, then
\* seriesFormat works on self.x and self.y themselves; the four result
\* attributes are assigned only when it returns.
formatDataWith(p) ==
    LET r == seriesFormat(x[1], y[1], p)
    IN  /\ attrs' = Some(p)
        /\ x' = Some(r.wavelengths)
        /\ y' = Some(r.absorbances)
        /\ exc' = r.err
        /\ IF r.err = "none"
           THEN /\ plotX' = r.plotX
                /\ plotY' = r.plotY
                /\ maxWLs' = r.maxWLs
                /\ xAxisTitle' = r.xAxisTitle
           ELSE UNCHANGED <<plotX, plotY, maxWLs, xAxisTitle>>
        /\ nCalls' = nCalls + 1
        /\ UNCHANGED <<raw, names>>
        /\ UNCHANGED <<guiVars, unitVars, titleVars, mainVars>>

\* The keyword parameters seriesFormat declares, and their defaults.
SeriesFormatKeywords ==
    {"xRange", "normalize", "normMethod", "normRange", "xType", "inclusion"}

SignatureDefaults == MkParams(None, TRUE, "maxdiv", <<"none">>, "wavelength", None)

\* The parameters a call seriesFormat(wavelengths, absorbances, **kw) binds.
BindKeywords(kw) ==
    [k \in SeriesFormatKeywords |->
       IF k \in DOMAIN kw THEN kw[k] ELSE SignatureDefaults[k]]

\* DataWrapper.formatData(**kw) for a dictionary kw of keyword arguments:
\* update(**kw) stores every keyword as an attribute, then the call of
\* seriesFormat raises TypeError, before its body runs, when kw holds a keyword
\* that seriesFormat does not declare.
formatDataKw(kw) ==
    /\ attrs' = Some(kw)
    /\ nCalls' = nCalls + 1
    /\ IF DOMAIN kw \subseteq SeriesFormatKeywords
       THEN LET r == seriesFormat(x[1], y[1], BindKeywords(kw))
            IN  /\ x' = Some(r.wavelengths)
                /\ y' = Some(r.absorbances)
                /\ exc' = r.err
                /\ IF r.err = "none"
                   THEN /\ plotX' = r.plotX
                        /\ plotY' = r.plotY
                        /\ maxWLs' = r.maxWLs
                        /\ xAxisTitle' = r.xAxisTitle
                   ELSE UNCHANGED <<plotX, plotY, maxWLs, xAxisTitle>>
       ELSE /\ exc' = "TypeError"
            /\ UNCHANGED <<x, y, plotX, plotY, maxWLs, xAxisTitle>>
    /\ UNCHANGED <<raw, names>>
    /\ UNCHANGED <<guiVars, unitVars, titleVars, mainVars>>

\* --------------------------------------------------------- plot titles
\* A series name is a sequence of characters here, so that split and join
\* work on its text.
\* name.split("-") from position k on; cur is the segment being read.
RECURSIVE SplitFrom(_, _, _, _)
SplitFrom(name, k, cur, acc) ==
    IF k > Len(name) THEN Append(acc, cur)
    ELSE IF name[k] = "-" THEN SplitFrom(name, k + 1, <<>>, Append(acc, cur))
    ELSE SplitFrom(name, k + 1, Append(cur, name[k]), acc)

split(name) == SplitFrom(name, 1, <<>>, <<>>)

\* "-".join(segments)
RECURSIVE join(_)
join(segments) ==
    IF Len(segments) = 0 THEN <<>>
    ELSE IF Len(segments) = 1 THEN segments[1]
    ELSE segments[1] \o <<"-">> \o join(Tail(segments))

\* segments[0:3]
FirstThree(segments) ==
    SubSeq(segments, 1, IF Len(segments) < 3 THEN Len(segments) ELSE 3)

\* A variant of the loop of setPlotTitles that appends every title.
RECURSIVE setPlotTitlesLoop_NoDedupe(_, _, _)
setPlotTitlesLoop_NoDedupe(nameList, k, acc) ==
    IF k > Len(nameList) THEN acc
    ELSE setPlotTitlesLoop_NoDedupe(nameList, k + 1,
           Append(acc, join(FirstThree(split(nameList[k])))))

\* The loop of DataWrapper.setPlotTitles from name k on.
RECURSIVE setPlotTitlesLoop(_, _, _)
setPlotTitlesLoop(nameList, k, acc) ==
    IF k > Len(nameList) THEN acc
    ELSE LET title == join(FirstThree(split(nameList[k])))
         IN  setPlotTitlesLoop(nameList, k + 1,
               IF \E t \in 1..Len(acc) : acc[t] = title THEN acc
               ELSE Append(acc, title))

\* The loop of Plotter.__init__ from name k on.
RECURSIVE plotTitlesLoop(_, _, _)
plotTitlesLoop(nameList, k, plotTitles) ==
    IF k > Len(nameList) THEN plotTitles
    ELSE LET segments == split(nameList[k])
             title == join(FirstThree(segments))
         IN  plotTitlesLoop(nameList, k + 1,
               IF \E t \in 1..Len(plotTitles) : plotTitles[t] = title
               THEN plotTitles ELSE Append(plotTitles, title))

\* The match statement of Plotter.__init__ on dataObj.xAxisTitle: the guard
\* `"cm" in xAxisTitle` raises TypeError for None; a title no case matches
\* leaves units unset.
PlotterUnits(title) ==
    IF title = None THEN [err |-> "TypeError", units |-> None]
    ELSE [err |-> "none",
          units |-> CASE title[1] = "wavelength (nm)" -> Some("nm")
                      [] title[1] = "wavenumbers (cm^-1)" -> Some("cm^-1")
                      [] title[1] = "energy (J)" -> Some("J")
                      [] title[1] = "energy (eV)" -> Some("eV")
                      [] OTHER -> None]

\* DataWrapper.setPlotTitles()
setPlotTitles ==
    /\ names # None
    /\ titles = None
    /\ titles' = Some(setPlotTitlesLoop(names[1], 1, <<>>))
    /\ UNCHANGED <<wrapperVars, guiVars, unitVars, plotter, mainFig, mainVars>>

\* plotter = Plotter(dataWrapper): __init__ computes plotTitles, then units;
\* when it raises, no Plotter is bound.
PlotterInit ==
    /\ names # None
    /\ plotter = None
    /\ exc = "none"
    /\ LET u == PlotterUnits(xAxisTitle)
       IN  IF u.err = "none"
           THEN /\ plotter' = Some([plotTitles |-> plotTitlesLoop(names[1], 1, <<>>),
                                    units |-> u.units])
                /\ UNCHANGED exc
           ELSE /\ exc' = u.err
                /\ UNCHANGED plotter
    /\ UNCHANGED <<raw, x, y, names, plotX, plotY, maxWLs, xAxisTitle, attrs, nCalls>>
    /\ UNCHANGED <<guiVars, unitVars, titles, mainFig, mainVars>>

\* The traces Plotter.updateMainPlot puts into the figure: one per element
\* of plotX, in order; the renaming loops zip the names (and the peaks when
\* normalize is True) with one colour per trace and name trace k after the
\* k-th name and the k-th peak.
MainPlotTraces(pX, pY, nameList, peaks, normalize, units) ==
    [k \in 1..Len(pX) |->
       LET named == /\ k <= Len(nameList)
                    /\ normalize => k <= Len(peaks)
       IN  [x |-> pX[k], y |-> pY[k],
            name |-> IF named THEN Some(nameList[k]) ELSE None,
            peak |-> IF named /\ normalize THEN Some(<<peaks[k], units>>) ELSE None]]

\* plotter.updateMainPlot() of a Plotter made for the formatted DataWrapper.
updateMainPlot ==
    /\ plotX # None
    /\ exc = "none"
    /\ mainFig = None
    /\ mainFig' = Some(MainPlotTraces(plotX[1], plotY[1], names[1],
                                      IF maxWLs = None THEN <<>> ELSE maxWLs[1],
                                      attrs[1].normalize,
                                      PlotterUnits(xAxisTitle).units))
    /\ UNCHANGED <<wrapperVars, guiVars, unitVars, titles, plotter, mainVars>>

\* ---------------------------------------------------------- bounded inputs
TextOfInt(k) == CASE k = 1 -> "1" [] k = 2 -> "2" [] OTHER -> "3"

\* A worksheet of well-formed rows: wavelengths 1, 2, ... in row order, the
\* absorbance texts given by abs, the series name in the first data row.
CleanSheet(name, abs) ==
    <<HeaderRow>> \o [j \in 1..Len(abs) |-> <<TextOfInt(j), abs[j], name>>]

CleanSheets(absTexts) ==
    {CleanSheet("a", abs) : abs \in SeqsUpTo(absTexts, MaxRows) \ {<<>>}}

DocsOf(sheetSet) ==
    {MkDoc(<<"doc", s>>, TRUE, s) :
       s \in {t \in SeqsUpTo(sheetSet, 2) : Len(t) \in SheetCounts}}

ParserDocs == {MalformedDoc} \cup DocsOf(Worksheets)

\* Single-trace documents range over every absorbance text, NaN included;
\* two-trace documents over the numeric ones.
FormatDocs ==
    {d \in DocsOf(CleanSheets({"1", "2", "nan"})) : Len(d.sheets) = 1}
      \cup DocsOf(CleanSheets({"1", "2"}))

PlotRanges == {None, Some(<<2, 4>>), Some(<<0, 1>>)}

NormWindows == {<<1, 2>>, <<1, 3>>, <<2, 4>>}

NormRanges(n) ==
    {<<"none">>} \cup {<<"one", r>> : r \in NormWindows}
      \cup {<<"each", rs>> : rs \in [1..n -> NormWindows]}

Inclusions(n) == {None} \cup {Some(m) : m \in [1..n -> BOOLEAN]}

NormChoices == {<<TRUE, "maxdiv">>, <<TRUE, "maxminus">>, <<FALSE, "maxdiv">>}

\* The parameter sets of the calls.  Each family varies some keyword
\* arguments and leaves the others at the defaults of seriesFormat's signature
\* (xType = "wavelength", normRange = None, inclusion = None).
RangeParams(n) ==
    {MkParams(xr, nz[1], nz[2], nr, "wavelength", None) :
       xr \in PlotRanges, nz \in NormChoices, nr \in NormRanges(n)}

UnitParams ==
    {MkParams(xr, nz[1], nz[2], <<"none">>, xt, None) :
       xr \in PlotRanges, nz \in NormChoices, xt \in XTypes}

InclusionParams(n) ==
    {MkParams(xr, nz[1], nz[2], nr, "wavelength", inc) :
       xr \in PlotRanges, nz \in NormChoices,
       nr \in {<<"none">>, <<"each", [i \in 1..n |-> <<1, 3>>]>>},
       inc \in Inclusions(n)}

FormatParams(n) == RangeParams(n) \cup UnitParams \cup InclusionParams(n)

\* ------------------------------------------------------- specifications
InitParser == InitWrapper(ParserDocs)

NextParser == parseData

\* fileParser on every bounded document.
SpecParser == InitParser /\ [][NextParser]_vars

formatDataOnce ==
    /\ x # None
    /\ nCalls = 0
    /\ \E p \in FormatParams(Len(x[1])) : formatDataWith(p)

InitFormat == InitWrapper(FormatDocs)

NextFormat == parseData \/ formatDataOnce

\* seriesFormat, called once on every bounded dataset with every bounded
\* parameter set.
SpecFormat == InitFormat /\ [][NextFormat]_vars

\* The most formatData calls made on one DataWrapper.
MaxFormats == 2

WrapperDocs == DocsOf(CleanSheets({"1", "2"}))

WrapperParams ==
    {MkParams(xr, nz[1], nz[2], nr, xt, None) :
       xr \in {None, Some(<<2, 4>>)}, nz \in NormChoices,
       nr \in {<<"none">>, <<"one", <<1, 3>>>>},
       xt \in {"wavelength", "wavenumbers"}}

formatData ==
    /\ x # None
    /\ nCalls < MaxFormats
    /\ \E p \in WrapperParams : formatDataWith(p)

Init == InitWrapper(WrapperDocs)

Next == parseData \/ formatData

\* One DataWrapper: parseData once, then any sequence of formatData calls.
Spec == Init /\ [][Next]_vars

\* ------------------------------------------------------------- mainGUI.py
\* getHash(file): the SHA-256 digest of the file's bytes, which differs
\* whenever the bytes differ.
getHash(doc) == <<"sha256", doc.id>>

\* to_nm(num, units): err names the exception raised ("none" when it
\* returns); val is None when the function ends without a return statement.
to_nm(num, units) ==
    CASE units = "wavenumbers" ->
           IF num.v = FromInt(0) THEN [err |-> "ZeroDivisionError", val |-> None]
           ELSE [err |-> "none",
                 val |-> Some(QMul(QDiv(QNum(FromInt(1)), num), TenTo(7)))]
      [] units = "electronvolts" ->
           IF num.v = FromInt(0) THEN [err |-> "ZeroDivisionError", val |-> None]
           ELSE [err |-> "none",
                 val |-> Some(QMul(QDiv(QMul(QDiv(PlanckH, ChargeE), LightC), num),
                                   TenTo(9)))]
      [] units = "wavelength" -> [err |-> "none", val |-> Some(num)]
      [] OTHER -> [err |-> "none", val |-> None]

\* A variant of sorted() that returns the list in the order given.
sorted_AsGiven(pair) ==
    IF pair[1] = None \/ pair[2] = None THEN [err |-> "TypeError", val |-> None]
    ELSE [err |-> "none", val |-> Some(<<pair[1][1], pair[2][1]>>)]

\* sorted() of a two-element list: the elements swap only when the second is
\* less than the first; None has no order.
sorted(pair) ==
    IF pair[1] = None \/ pair[2] = None THEN [err |-> "TypeError", val |-> None]
    ELSE [err |-> "none",
          val |-> Some(IF QLt(pair[2][1], pair[1][1]) THEN <<pair[2][1], pair[1][1]>>
                       ELSE <<pair[1][1], pair[2][1]>>)]

\* range_to_nm(xRange, units): to_nm of both ends, sorted.
range_to_nm(xRange, units) ==
    LET a == to_nm(xRange[1], units)
        b == to_nm(xRange[2], units)
    IN  IF a.err # "none" THEN [err |-> a.err, val |-> None]
        ELSE IF b.err # "none" THEN [err |-> b.err, val |-> None]
        ELSE sorted(<<a.val, b.val>>)

RECURSIVE SeqMin(_)
SeqMin(xs) ==
    IF Len(xs) = 1 THEN xs[1]
    ELSE LET m == SeqMin(Tail(xs)) IN IF xs[1] < m THEN xs[1] ELSE m

RECURSIVE SeqMax(_)
SeqMax(xs) ==
    IF Len(xs) = 1 THEN xs[1]
    ELSE LET m == SeqMax(Tail(xs)) IN IF xs[1] > m THEN xs[1] ELSE m

\* dataWrapper.minX[i] and dataWrapper.maxX[i]: the ends of trace i's domain.
minX(dw, i) == SeqMin(dw.x[i])
maxX(dw, i) == SeqMax(dw.x[i])

\* The session state the script reads and writes in session s: the session's
\* own state until the module attribute has been assigned, then the assigned
\* dictionary.
View(s) == IF ssShared = None THEN ssProxy[s] ELSE ssShared[1]

\* `if "raw" not in st.session_state: st.session_state["raw"] = None`
InitRaw(ss) == IF ss.raw = Absent THEN [ss EXCEPT !.raw = <<"None">>] ELSE ss

\* The test guarding `st.session_state = {}`.
HashDiffers(ss, up) == up # None /\ getHash(up[1]) # ss.raw

\* The session state after the reset: a new dictionary holding only raw.
ResetState(ss, up) ==
    IF HashDiffers(ss, up) THEN [EmptyState EXCEPT !.raw = getHash(up[1])] ELSE ss

\* The dataWrapper of the run: None without an upload or when parseData
\* raises ParseError; any other exception leaves the panel through the
\* outer handler before a trace is laid out, which is modelled as None too.
ParsedUpload(up) ==
    IF up = None THEN None
    ELSE LET r == fileParser(up[1])
         IN  IF r.err = "none"
             THEN Some([x |-> r.wavelengths, y |-> r.absorbances, names |-> r.names])
             ELSE None

\* The initialisation of includeList, normRange_i and include_i for the keys
\* that are not in the session state.
InitPerSeries(ss, dw) ==
    LET numTraces == Len(dw.x)
    IN  [ss EXCEPT
           !.includeList = IF @ = Absent THEN Some([i \in 1..numTraces |-> TRUE]) ELSE @,
           !.normRange = [i \in TraceIds |->
                            IF i <= numTraces /\ @[i] = Absent
                            THEN Some(<<minX(dw, i), maxX(dw, i)>>) ELSE @[i]],
           !.include = [i \in TraceIds |->
                          IF i <= numTraces /\ @[i] = Absent THEN Some(TRUE) ELSE @[i]]]

\* One run of the upload-and-select tab with no widget changed, from the
\* session state ss with the file up in the uploader.
RunTab(ss, up) ==
    LET dw == ParsedUpload(up)
        ss2 == ResetState(InitRaw(ss), up)
    IN  IF dw = None THEN ss2 ELSE InitPerSeries(ss2, dw[1])

\* The "Include?" toggle of trace i (counted from 1) returning include.
SetInclude(ss, i, include) ==
    IF Some(include) # ss.include[i]
    THEN [ss EXCEPT !.includeList = Some([ss.includeList[1] EXCEPT ![i] = include]),
                    !.include[i] = Some(include)]
    ELSE ss

\* A box selection or a slider move giving trace i the range r.
SetNormRange(ss, i, r) == [ss EXCEPT !.normRange[i] = Some(r)]

\* Session s ends a script run with final session state ss, the uploader
\* holding up.  A run that found a different hash has bound the module
\* attribute to a new dictionary; the session's own state then keeps only
\* what was written before the assignment.
Commit(s, ss, up) ==
    /\ upload' = [upload EXCEPT ![s] = up]
    /\ dataWrapper' = [dataWrapper EXCEPT ![s] = ParsedUpload(up)]
    /\ IF ssShared # None
       THEN /\ ssShared' = Some(ss)
            /\ UNCHANGED ssProxy
       ELSE IF HashDiffers(InitRaw(ssProxy[s]), up)
       THEN /\ ssShared' = Some(ss)
            /\ ssProxy' = [ssProxy EXCEPT ![s] = InitRaw(@)]
       ELSE /\ ssProxy' = [ssProxy EXCEPT ![s] = ss]
            /\ UNCHANGED ssShared
    /\ UNCHANGED <<wrapperVars, unitVars, titleVars>>

\* The user of session s puts the file doc into the uploader.
Upload(s, doc) ==
    /\ Commit(s, RunTab(View(s), Some(doc)), Some(doc))
    /\ lastHash' = [lastHash EXCEPT ![s] = Some(getHash(doc))]
    /\ UNCHANGED <<normalizeToggle, mainVars>>

\* The user of session s removes the file from the uploader.
ClearUpload(s) ==
    /\ upload[s] # None
    /\ Commit(s, RunTab(View(s), None), None)
    /\ UNCHANGED <<normalizeToggle, lastHash, mainVars>>

\* A rerun of session s in which no widget of the tab changed.
Rerun(s) ==
    /\ Commit(s, RunTab(View(s), upload[s]), upload[s])
    /\ UNCHANGED <<normalizeToggle, lastHash, mainVars>>

\* The user of session s flips "Normalize?".
ToggleNormalize(s) ==
    /\ dataWrapper[s] # None
    /\ normalizeToggle' = [normalizeToggle EXCEPT ![s] = ~@]
    /\ Commit(s, RunTab(View(s), upload[s]), upload[s])
    /\ UNCHANGED <<lastHash, mainVars>>

\* An "Include?" toggle of trace i in session s returns include: the run
\* reaches the toggle, stores the value and reruns the script.
ToggleInclude(s, i, include) ==
    /\ dataWrapper[s] # None
    /\ i <= Len(dataWrapper[s][1].x)
    /\ LET ss == SetInclude(RunTab(View(s), upload[s]), i, include)
       IN  Commit(s, RunTab(ss, upload[s]), upload[s])
    /\ UNCHANGED <<normalizeToggle, lastHash, mainVars>>

ToggleIncludeMain(s, i, include) == ToggleInclude(s, i, include)

ToggleIncludeSidebar(s, i, include) == ToggleInclude(s, i, include)

\* A new normalization range r for trace i in session s (only offered while
\* "Normalize?" is on): stored, then the script reruns.
NewNormRange(s, i, r) ==
    /\ dataWrapper[s] # None
    /\ normalizeToggle[s]
    /\ i <= Len(dataWrapper[s][1].x)
    /\ LET ss == SetNormRange(RunTab(View(s), upload[s]), i, r)
       IN  Commit(s, RunTab(ss, upload[s]), upload[s])
    /\ UNCHANGED <<normalizeToggle, lastHash, mainVars>>

SelectNormRange(s, i, r) == NewNormRange(s, i, r)

SlideNormRange(s, i, r) == NewNormRange(s, i, r)

\* The files the users upload: two datasets and a file that is not XML.
DocA == MkDoc(<<"doc", <<CleanSheet("a", <<"1", "2">>), CleanSheet("b", <<"2", "1">>)>>>>,
              TRUE, <<CleanSheet("a", <<"1", "2">>), CleanSheet("b", <<"2", "1">>)>>)

DocB == MkDoc(<<"doc", <<CleanSheet("c", <<"1", "2">>)>>>>,
              TRUE, <<CleanSheet("c", <<"1", "2">>)>>)

GuiDocs == {DocA, DocB, MalformedDoc}

GuiWindows == {<<1, 1>>, <<1, 2>>, <<2, 2>>}

InitGui ==
    /\ raw = None
    /\ x = None
    /\ y = None
    /\ names = None
    /\ plotX = None
    /\ plotY = None
    /\ maxWLs = None
    /\ xAxisTitle = None
    /\ attrs = None
    /\ exc = "none"
    /\ nCalls = 0
    /\ InitNoGui

\* What the user of session s can do.
SessionStep(s) ==
    \/ \E doc \in GuiDocs : Upload(s, doc)
    \/ ClearUpload(s)
    \/ Rerun(s)
    \/ ToggleNormalize(s)
    \/ \E i \in TraceIds, include \in BOOLEAN : ToggleIncludeMain(s, i, include)
    \/ \E i \in TraceIds, include \in BOOLEAN : ToggleIncludeSidebar(s, i, include)
    \/ \E i \in TraceIds, r \in GuiWindows : SelectNormRange(s, i, r)
    \/ \E i \in TraceIds, r \in GuiWindows : SlideNormRange(s, i, r)

NextGui == \E s \in Sessions : SessionStep(s)

\* The sessions of one Streamlit process, each script run atomic.
SpecGui == InitGui /\ [][NextGui]_vars

\* -------------------------------------------------- mainGUI.py: main plot
\* The units the selectbox of the main plot maps to.
MainUnits == {"wavelength", "wavenumbers", "electronvolts"}

\* The slider bound the script computes from the wavelength w when a unit is
\* selected.
UnitBound(units, w) ==
    CASE units = "wavelength" -> QNum(FromInt(w))
      [] units = "wavenumbers" -> QDiv(TenTo(7), QNum(FromInt(w)))
      [] OTHER -> QDiv(QDiv(QMul(PlanckH, LightC), ChargeE),
                       QMul(QNum(FromInt(w)), TenTo(-9)))

\* mainRange in the display unit for the wavelengths lo..hi: (min_value,
\* max_value) is (lo, hi) in nm and the images of (hi, lo) otherwise.
DisplayRange(units, lo, hi) ==
    IF units = "wavelength" THEN <<UnitBound(units, lo), UnitBound(units, hi)>>
    ELSE <<UnitBound(units, hi), UnitBound(units, lo)>>

\* The wavelength windows the range slider is set to.
MainWindows == {<<1, 2>>, <<1, 3>>, <<2, 3>>}

\* The formatData call of the main plot tab, with the session's units,
\* mainRange, minZero and includeList and the script's normalize and normRange.
\* The arguments are evaluated first: an exception in range_to_nm escapes
\* before formatData is entered.
mainPlotFormatWith(units, mainRange, minZero, normalize, normRange, includeList) ==
    LET nm == range_to_nm(mainRange, units)
    IN  IF nm.err # "none"
        THEN /\ exc' = nm.err
             /\ UNCHANGED <<raw, x, y, names, plotX, plotY, maxWLs, xAxisTitle,
                            attrs, nCalls>>
             /\ UNCHANGED <<guiVars, unitVars, titleVars, mainVars>>
        ELSE formatDataKw([xRange_in_nm |-> nm.val[1], normalize |-> normalize,
                           normRange |-> normRange, xType |-> units,
                           inclusion |-> Some(includeList),
                           aboveZero |-> minZero])

\* The normRange of a script run: None with the toggle off, else one window
\* per trace, the trace's whole domain unless a window was selected.
ScriptNormRanges(wavelengths, normalize) ==
    IF ~normalize THEN {<<"none">>}
    ELSE {<<"each", [i \in 1..Len(wavelengths) |->
                       <<SeqMin(wavelengths[i]), SeqMax(wavelengths[i])>>]>>}
           \cup {<<"each", [i \in 1..Len(wavelengths) |-> r]>> : r \in GuiWindows}

mainPlotFormat ==
    /\ x # None
    /\ nCalls = 0
    /\ \E units \in MainUnits, w \in MainWindows, minZero \in BOOLEAN,
          normalize \in BOOLEAN, includeList \in [1..Len(x[1]) -> BOOLEAN] :
         \E normRange \in ScriptNormRanges(x[1], normalize) :
           mainPlotFormatWith(units, DisplayRange(units, w[1], w[2]), minZero,
                              normalize, normRange, includeList)

\* The library's own test case: formatData(xRange = None, normalize = True).
testCase ==
    /\ x # None
    /\ nCalls = 0
    /\ formatDataKw([xRange |-> None, normalize |-> TRUE])

MainPlotDocs == DocsOf(CleanSheets({"1", "-0.5"}))

InitMainPlot == InitWrapper(MainPlotDocs)

NextMainPlot == parseData \/ mainPlotFormat \/ testCase

\* One script run on every bounded dataset: parseData, then the formatData
\* call of the main plot tab (or the library's test case).
SpecMainPlot == InitMainPlot /\ [][NextMainPlot]_vars

\* -------------------------------------------- mainGUI.py: main plot tab
\* The largest wavelength (nm) and the largest plain number converted.
MaxWavelength == 3

\* minX = min(dataWrapper.minX) and maxX = max(dataWrapper.maxX).
DomainEnds(dw) ==
    <<SeqMin([i \in 1..Len(dw.x) |-> minX(dw, i)]),
      SeqMax([i \in 1..Len(dw.x) |-> maxX(dw, i)])>>

\* The defaults the main plot tab stores for the keys that are not in the
\* session state.
MainDefaults(ss, dw) ==
    LET ends == DomainEnds(dw)
        OrElse(cur, v) == IF cur = Absent THEN Some(v) ELSE cur
    IN  [ss EXCEPT
           !.minZero = OrElse(@, TRUE),
           !.mainRange = OrElse(@, <<QNum(FromInt(ends[1])), QNum(FromInt(ends[2]))>>),
           !.min_value = OrElse(@, QNum(FromInt(ends[1]))),
           !.max_value = OrElse(@, QNum(FromInt(ends[2]))),
           !.units = OrElse(@, "wavelength")]

\* A variant of the unit change that keeps the stored mainRange.
UnitChange_RangeKept(ss, dw, selected) ==
    LET ends == DomainEnds(dw)
        bounds == DisplayRange(selected, ends[1], ends[2])
    IN  [ss EXCEPT !.units = Some(selected),
                   !.min_value = Some(bounds[1]),
                   !.max_value = Some(bounds[2])]

\* The branch taken when the selectbox holds a unit other than the stored
\* one: units, mainRange, min_value and max_value are stored for the new unit.
UnitChange(ss, dw, selected) ==
    LET ends == DomainEnds(dw)
        bounds == DisplayRange(selected, ends[1], ends[2])
    IN  [ss EXCEPT !.units = Some(selected),
                   !.mainRange = Some(bounds),
                   !.min_value = Some(bounds[1]),
                   !.max_value = Some(bounds[2])]

\* What the range slider can return: a pair lo <= hi between the min_value
\* and max_value it was given, in their unit.
SliderValues(ss) ==
    LET stops == {UnitBound(ss.units[1], w) : w \in 1..MaxWavelength}
    IN  {r \in stops \X stops :
           /\ ~QLt(r[1], ss.min_value[1])
           /\ ~QLt(r[2], r[1])
           /\ ~QLt(ss.max_value[1], r[2])}

\* Whether the formatData call of the main plot tab returns.  It raises
\* TypeError with the seriesFormat of finalprojectlib.py, which declares
\* neither xRange_in_nm nor aboveZero; the widgets below the call are reached
\* with a library that accepts the keywords the script passes.
FormatOutcomes == BOOLEAN

\* The main plot tab of a script run of session s, the tab above it having
\* run (a step of its own: Streamlit runs each session's script in a thread of
\* its own, and steps of other sessions come between the two tabs).  The
\* defaults are stored; the arguments of formatData are read (KeyError without
\* includeList); when the call returns, the first widget whose value differs
\* from the stored one stores it and ends the run with st.rerun().  returns
\* says whether the formatData call returned; xRange and minZero are what the
\* range slider and the "Minimize at 0?" toggle return.
MainTab(s, returns, minZero) ==
    /\ dataWrapper[s] # None
    /\ LET dw == dataWrapper[s][1]
           d == MainDefaults(View(s), dw)
           entered == d.includeList # Absent
           Final(xRange) ==
             IF ~(entered /\ returns) THEN d
             ELSE IF unitsSelection[s] # d.units[1]
             THEN UnitChange(d, dw, unitsSelection[s])
             ELSE IF xRange # d.mainRange[1] THEN [d EXCEPT !.mainRange = Some(xRange)]
             ELSE IF minZero # d.minZero[1] THEN [d EXCEPT !.minZero = Some(minZero)]
             ELSE d
       IN  \E xRange \in SliderValues(d) :
           LET final == Final(xRange) IN
           /\ mainCall' = IF entered
                          THEN Some([numTraces |-> Len(dw.x),
                                     inclusion |-> d.includeList[1],
                                     flags |-> [i \in 1..Len(dw.x) |-> d.include[i]]])
                          ELSE mainCall
           /\ IF ssShared = None
              THEN /\ ssProxy' = [ssProxy EXCEPT ![s] = final]
                   /\ UNCHANGED ssShared
              ELSE /\ ssShared' = Some(final)
                   /\ UNCHANGED ssProxy
    /\ UNCHANGED <<upload, normalizeToggle, dataWrapper, lastHash, unitsSelection>>
    /\ UNCHANGED <<wrapperVars, unitVars, titleVars>>

\* The user of session s picks the unit u in the selectbox: the script runs
\* again from the top, here up to the end of the first tab.
SelectUnits(s, u) ==
    /\ dataWrapper[s] # None
    /\ u # unitsSelection[s]
    /\ unitsSelection' = [unitsSelection EXCEPT ![s] = u]
    /\ Commit(s, RunTab(View(s), upload[s]), upload[s])
    /\ UNCHANGED <<normalizeToggle, lastHash, mainCall>>

NextMainTab ==
    \E s \in Sessions :
      \/ \E doc \in GuiDocs : Upload(s, doc)
      \/ Rerun(s)
      \/ \E u \in MainUnits : SelectUnits(s, u)
      \/ \E returns \in FormatOutcomes, minZero \in BOOLEAN :
           MainTab(s, returns, minZero)

\* The sessions of one Streamlit process, the two tabs of a script run as
\* separate steps: uploads, unit selections and main plot tabs.
SpecMainTab == InitGui /\ [][NextMainTab]_vars

NextSeriesTab ==
    \E s \in Sessions :
      \/ \E doc \in {DocA, DocB} : Upload(s, doc)
      \/ \E i \in TraceIds : ToggleIncludeMain(s, i, FALSE)
      \/ \E i \in TraceIds : ToggleIncludeSidebar(s, i, TRUE)
      \/ SelectNormRange(s, 1, <<1, 1>>)
      \/ \E u \in {"wavelength", "wavenumbers"} : SelectUnits(s, u)
      \/ \E returns \in FormatOutcomes, minZero \in BOOLEAN :
           MainTab(s, returns, minZero)

\* The same with the per-series widgets of the first tab: a series is switched
\* off in the main panel and on in the sidebar.
SpecSeriesTab == InitGui /\ [][NextSeriesTab]_vars

\* ------------------------------------------- mainGUI.py: unit conversions

\* The numbers a range end is drawn from: integers from -1 on, and a half.
PlainEnds == {QNum(FromInt(k)) : k \in -1..MaxWavelength} \cup {QNum(<<1, 2>>)}

\* The ranges range_to_nm is called with: any two plain numbers, in either
\* order, or the bounds the script computes for two wavelengths in the unit.
UnitRanges(units) ==
    (PlainEnds \X PlainEnds)
      \cup {<<UnitBound(units, a), UnitBound(units, b)>> :
              a \in 1..MaxWavelength, b \in 1..MaxWavelength}

\* The units to_nm is called with: the selectable ones and seriesFormat's.
ConvUnits == MainUnits \cup XTypes

\* range_to_nm(xRange, units) is called.
callRangeToNm(xRange, units) ==
    /\ unitCall = None
    /\ unitCall' = Some([fn |-> "range_to_nm", xRange |-> xRange, w |-> 0,
                         units |-> units])
    /\ unitResult' = Some(range_to_nm(xRange, units))
    /\ UNCHANGED <<wrapperVars, guiVars, titleVars, mainVars>>

\* The wavelength w is converted as seriesFormat converts plotX for xType and
\* the result is passed to to_nm with the same unit.
roundTrip(w, xType) ==
    /\ unitCall = None
    /\ unitCall' = Some([fn |-> "to_nm", xRange |-> <<>>, w |-> w,
                         units |-> xType])
    /\ unitResult' = Some(to_nm(ConvertQ(xType, w), xType))
    /\ UNCHANGED <<wrapperVars, guiVars, titleVars, mainVars>>

InitUnits == InitGui

NextUnits ==
    \/ \E units \in ConvUnits : \E xRange \in UnitRanges(units) :
         callRangeToNm(xRange, units)
    \/ \E w \in 1..MaxWavelength, xType \in XTypes : roundTrip(w, xType)

\* One call of a unit conversion on every bounded argument.
SpecUnits == InitUnits /\ [][NextUnits]_vars

NextPlot == parseData \/ formatDataOnce \/ updateMainPlot

\* One formatData call on every bounded dataset, then the main plot.
SpecPlot == InitFormat /\ [][NextPlot]_vars

\* ------------------------------------------------- plot titles: inputs
\* The most series of a dataset whose titles are computed.
MaxNames == 2

\* Series names, character by character: A, A-B, A-B-C, A-B-C-D, A-B-C-A,
\* A-B-D-C, A--B-C and -A.
NameTexts ==
    { <<"A">>,
      <<"A", "-", "B">>,
      <<"A", "-", "B", "-", "C">>,
      <<"A", "-", "B", "-", "C", "-", "D">>,
      <<"A", "-", "B", "-", "C", "-", "A">>,
      <<"A", "-", "B", "-", "D", "-", "C">>,
      <<"A", "-", "-", "B", "-", "C">>,
      <<"-", "A">> }

NameLists == SeqsUpTo(NameTexts, MaxNames) \ {<<>>}

\* A DataWrapper whose names were parsed, before or after formatData set
\* xAxisTitle.
InitTitles ==
    /\ raw = None
    /\ x = None
    /\ y = None
    /\ names \in {Some(l) : l \in NameLists}
    /\ plotX = None
    /\ plotY = None
    /\ maxWLs = None
    /\ xAxisTitle \in {None} \cup {Some(AxisTitle(t)) : t \in XTypes}
    /\ attrs = None
    /\ exc = "none"
    /\ nCalls = 0
    /\ InitNoGui

NextTitles == setPlotTitles \/ PlotterInit

\* setPlotTitles and Plotter(...) on every bounded list of names.
SpecTitles == InitTitles /\ [][NextTitles]_vars

\* ------------------------------------------------------- claims: fileParser
\* A data row whose cell 1 coerces to int and whose cell 2 coerces to float.
ValidRow(row) == Len(row) >= 2 /\ row[1] \in IntTexts /\ row[2] \in FloatTexts

CountValid(rows) == Cardinality({i \in 1..Len(rows) : ValidRow(rows[i])})

\* C1: fileParser drops bad rows: for every worksheet the returned wavelength
\* and absorbance arrays hold exactly one entry per data row whose cell 1
\* coerces to int and cell 2 to float, so a worksheet with n valid rows and k
\* bad rows yields a series of length n.
C1_BadRowsDropped ==
    x # None =>
      \A k \in 1..Len(raw.sheets) :
        /\ Len(x[1][k]) = CountValid(Tail1(raw.sheets[k]))
        /\ Len(y[1][k]) = CountValid(Tail1(raw.sheets[k]))


\* ----------------------------------------------------- claims: seriesFormat
\* The dataset as parseData stored it, before any formatData call.
Parsed == fileParser(raw)

\* A first formatData call has been made with normalize on.
NormalizedOnce == nCalls = 1 /\ attrs[1].normalize

\* The window of trace i as documented: lower bound inclusive, upper exclusive.
InWindow(normRange, i, w) ==
    \/ normRange[1] = "none"
    \/ LET r == IF normRange[1] = "one" THEN normRange[2] ELSE normRange[2][i]
       IN  w >= r[1] /\ w < r[2]

\* The positions of trace i that lie in its window and hold a number.
WindowPoints(i) ==
    {j \in 1..Len(Parsed.wavelengths[i]) :
       /\ InWindow(attrs[1].normRange, i, Parsed.wavelengths[i][j])
       /\ Parsed.absorbances[i][j] # NaN}

\* The positions of the window's maximum.
WindowMaxima(i) ==
    {j \in WindowPoints(i) :
       \A k \in WindowPoints(i) :
         ~NumLt(Parsed.absorbances[i][j], Parsed.absorbances[i][k])}

CountTrue(mask) == Cardinality({k \in 1..Len(mask) : mask[k]})

\* The traces a mask keeps, in order.
RECURSIVE Kept(_, _, _)
Kept(mask, series, k) ==
    IF k > Len(series) THEN <<>>
    ELSE (IF mask[k] THEN <<series[k]>> ELSE <<>>) \o Kept(mask, series, k + 1)

\* C2: with normalize on and an inclusion mask, seriesFormat returns exactly
\* as many (x,y) series and as many peak-x entries as the mask has true
\* entries, in the original relative order, the j-th peak belonging to the
\* j-th returned series.
C2_PeaksFollowInclusion ==
    (NormalizedOnce /\ exc = "none" /\ attrs[1].inclusion # None) =>
      LET mask == attrs[1].inclusion[1]
          all == seriesFormat(Parsed.wavelengths, Parsed.absorbances,
                              [attrs[1] EXCEPT !.inclusion = None])
      IN  /\ Len(plotX[1]) = CountTrue(mask)
          /\ Len(plotY[1]) = CountTrue(mask)
          /\ plotY[1] = Kept(mask, all.plotY[1], 1)
          /\ Len(maxWLs[1]) = CountTrue(mask)
          /\ maxWLs[1] = Kept(mask, all.maxWLs[1], 1)

\* C8: with one (lo, hi) normalization range every series uses the same
\* window rule, lower bound inclusive and upper bound exclusive: the call ends
\* as it does when the same range is given per trace, and a returned peak is
\* the maximum of the half-open window.
C8_OneRangeSameRule ==
    (NormalizedOnce /\ attrs[1].normRange[1] = "one") =>
      LET n == Len(Parsed.wavelengths)
          each == seriesFormat(Parsed.wavelengths, Parsed.absorbances,
                    [attrs[1] EXCEPT
                       !.normRange = <<"each", [i \in 1..n |-> attrs[1].normRange[2]]>>])
      IN  /\ exc = each.err
          /\ exc = "none" => /\ plotY = each.plotY
                             /\ maxWLs = each.maxWLs

\* C9: when seriesFormat with normalize on returns, each recorded peak x is
\* the x of that series' own maximum non-NaN y within its window and lies in
\* the window; and the call does not fail because the maximum y occurs at more
\* than one x: it fails with ValueError only if some window holds no number.
C9_PeakOwnAndTiesTolerated ==
    (NormalizedOnce /\ attrs[1].inclusion = None) =>
      LET n == Len(Parsed.wavelengths)
      IN  /\ exc = "none" =>
               \A i \in 1..n :
                 \E j \in WindowMaxima(i) : maxWLs[1][i] = Parsed.wavelengths[i][j]
          /\ exc = "ValueError" => \E i \in 1..n : WindowPoints(i) = {}

\* The y values the claim expects for trace i: every point of the trace
\* divided by (or reduced by) the maximum of the trace's window, then the
\* points of the plot range kept.
ExpectedY(i) ==
    LET ys == Parsed.absorbances[i]
        xs == Parsed.wavelengths[i]
        peakY == ys[CHOOSE j \in WindowMaxima(i) : TRUE]
        whole == [j \in 1..Len(ys) |->
                    IF attrs[1].normMethod = "maxdiv" THEN NumDiv(ys[j], peakY)
                    ELSE NumSub(ys[j], peakY)]
        inRange == [j \in 1..Len(ys) |->
                      \/ attrs[1].xRange = None
                      \/ xs[j] >= attrs[1].xRange[1][1] /\ xs[j] < attrs[1].xRange[1][2]]
    IN  Kept(inRange, whole, 1)

\* C10: with normalization on, every point of each series is transformed by
\* that series' peak y (the maximum y inside its normalization window), not
\* only the points inside the window or the plot range: divide gives
\* y_i / peakY and subtract gives y_i - peakY for every i.
C10_EveryPointScaled ==
    (NormalizedOnce /\ exc = "none") =>
      LET n == Len(Parsed.wavelengths)
          expected == [i \in 1..n |-> ExpectedY(i)]
      IN  plotY[1] = IF attrs[1].inclusion = None THEN expected
                     ELSE Kept(attrs[1].inclusion[1], expected, 1)

\* A divide-normalized trace [1, 2] whose window [2, 4) holds only its second
\* point: the first point, outside the window, became 1/2.
C10_Witness ==
    /\ NormalizedOnce
    /\ exc = "none"
    /\ attrs[1].normMethod = "maxdiv"
    /\ attrs[1].normRange = <<"each", <<<<2, 4>>>>>>
    /\ attrs[1].xRange = None
    /\ Parsed.absorbances = <<<<FromInt(1), FromInt(2)>>>>
    /\ plotY = Some(<<<<<<1, 2>>, <<1, 1>>>>>>)

\* ------------------------------------------------------ claims: DataWrapper
\* C3: formatData never changes the parsed series: after any sequence of
\* formatData calls, x and y hold the values parseData stored.
C3_ParsedSeriesKept ==
    x # None => /\ x = Some(Parsed.wavelengths)
                /\ y = Some(Parsed.absorbances)

\* C4: the result of the latest formatData call equals the result of
\* formatting a freshly parsed copy of the same input with the latest
\* parameters alone.
C4_LatestCallAsFresh ==
    nCalls >= 1 =>
      LET fresh == seriesFormat(Parsed.wavelengths, Parsed.absorbances, attrs[1])
      IN  /\ exc = fresh.err
          /\ exc = "none" => /\ plotX = fresh.plotX
                             /\ plotY = fresh.plotY
                             /\ maxWLs = fresh.maxWLs
                             /\ xAxisTitle = fresh.xAxisTitle


\* ---------------------------------------------------------- claims: mainGUI
\* The per-series session state: includeList, normRange_i, include_i.
PerSeries(ss) == <<ss.includeList, ss.normRange, ss.include>>

\* The per-series session state right after a reset for the file doc.
DefaultsFor(doc) ==
    LET dw == ParsedUpload(Some(doc))
    IN  PerSeries(IF dw = None THEN EmptyState ELSE InitPerSeries(EmptyState, dw[1]))

C6_FailedUploadKeepsState ==
    [][\A s \in Sessions :
         Upload(s, MalformedDoc) =>
           /\ dataWrapper'[s] = dataWrapper[s]
           /\ PerSeries(View(s))' = PerSeries(View(s))]_vars

\* C7: no event in one session changes the normalization windows and
\* inclusion flags another session sees.
C7_SessionsIsolated ==
    [][\A s \in Sessions :
         SessionStep(s) =>
           \A t \in Sessions \ {s} : PerSeries(View(t))' = PerSeries(View(t))]_vars

\* --------------------------------------------------- claims: main plot call
\* The last formatData call was the main plot's (it carries aboveZero).
MainPlotCalled == attrs # None /\ "aboveZero" \in DOMAIN attrs[1]

\* The plot range of the call in nm, as seriesFormat's xRange.
CallRangeNm == Some(<<attrs[1].xRange_in_nm[1].v[1], attrs[1].xRange_in_nm[2].v[1]>>)

\* What seriesFormat returns on the parsed dataset for the call's range,
\* normalization, unit and inclusion, floor-at-zero apart.
Unfloored ==
    seriesFormat(Parsed.wavelengths, Parsed.absorbances,
                 MkParams(CallRangeNm, attrs[1].normalize, "maxdiv",
                          attrs[1].normRange, attrs[1].xType, attrs[1].inclusion))

\* The least value of a non-empty series.
MinY(ys) == ys[CHOOSE j \in 1..Len(ys) : \A k \in 1..Len(ys) : ~NumLt(ys[k], ys[j])]

\* A series shifted up by the magnitude of its minimum when that is negative.
Floored(ys) ==
    IF Len(ys) = 0 \/ ~NumLt(MinY(ys), FromInt(0)) THEN ys
    ELSE [j \in 1..Len(ys) |-> NumSub(ys[j], MinY(ys))]

\* C11: a main plot call with aboveZero on returns every series shifted up by
\* the magnitude of its own negative minimum (minimum exactly 0) and every
\* non-negative series unchanged.
C11_FloorAtZero ==
    (MainPlotCalled /\ attrs[1].aboveZero /\ Unfloored.err = "none") =>
      /\ exc = "none"
      /\ plotY = Some([i \in 1..Len(Unfloored.plotY[1]) |->
                         Floored(Unfloored.plotY[1][i])])

\* ------------------------------------------------ claims: slicing and units
\* The positions of trace i with lo <= x < hi for the call's plot range.
InPlotRange(i) ==
    [j \in 1..Len(Parsed.wavelengths[i]) |->
       \/ attrs[1].xRange = None
       \/ /\ Parsed.wavelengths[i][j] >= attrs[1].xRange[1][1]
          /\ Parsed.wavelengths[i][j] < attrs[1].xRange[1][2]]

\* The x values of trace i the call is to return: the kept wavelengths, in
\* order, in the display unit.
SlicedX(i) ==
    Kept(InPlotRange(i),
         [j \in 1..Len(Parsed.wavelengths[i]) |->
            ConvertX(attrs[1].xType, Parsed.wavelengths[i][j])], 1)

\* The y values of trace i the call is to return.
SlicedY(i) ==
    IF attrs[1].normalize THEN ExpectedY(i)
    ELSE Kept(InPlotRange(i), Parsed.absorbances[i], 1)

\* The series an inclusion mask (or none) lets through.
Shown(series) ==
    IF attrs[1].inclusion = None THEN series
    ELSE Kept(attrs[1].inclusion[1], series, 1)

\* C12: the formatted series keeps exactly the points with lo <= x < hi, each
\* with its own y, in the original order; without a range every point is kept.
C12_RangeSlicing ==
    (nCalls = 1 /\ exc = "none") =>
      LET n == Len(Parsed.wavelengths)
      IN  /\ plotX[1] = Shown([i \in 1..n |-> SlicedX(i)])
          /\ plotY[1] = Shown([i \in 1..n |-> SlicedY(i)])

\* The trace x = [1, 2], y = [1, 2] formatted with the range [2, 4) and no
\* normalization: only the point (2, 2) is returned.
C12_Witness ==
    /\ nCalls = 1
    /\ exc = "none"
    /\ ~attrs[1].normalize
    /\ attrs[1].xRange = Some(<<2, 4>>)
    /\ attrs[1].xType = "wavelength"
    /\ Parsed.wavelengths = <<<<1, 2>>>>
    /\ Parsed.absorbances = <<<<FromInt(1), FromInt(2)>>>>
    /\ plotX = Some(<<<<FromInt(2)>>>>)
    /\ plotY = Some(<<<<FromInt(2)>>>>)

\* C13: the main plot's call, for each selectable unit, returns each series
\* sliced in nm by the display range converted to nm, and x converted to the
\* display unit after slicing and normalization.
C13_DisplayRangeSlicesInNm ==
    (MainPlotCalled /\ Unfloored.err = "none") =>
      /\ exc = "none"
      /\ plotX = Unfloored.plotX
      /\ xAxisTitle = Some(AxisTitle(attrs[1].xType))

\* ------------------------------------------------- claims: empty window
\* The window [lo, hi) of trace i holds none of the trace's points.
EmptyWindow(i) ==
    \A j \in 1..Len(Parsed.wavelengths[i]) :
      ~InWindow(attrs[1].normRange, i, Parsed.wavelengths[i][j])

\* C14: when the normalization window of some series holds no data point, a
\* formatData call with normalize on ends in an exception and assigns no
\* result, so no missing, NaN or stale peak is returned.
C14_EmptyWindowIsAnError ==
    (NormalizedOnce /\ \E i \in 1..Len(Parsed.wavelengths) : EmptyWindow(i)) =>
      /\ exc # "none"
      /\ maxWLs = None
      /\ plotX = None
      /\ plotY = None

\* The trace x = [1] normalized over the window [2, 4): ValueError.
C14_Witness ==
    /\ NormalizedOnce
    /\ Parsed.wavelengths = <<<<1>>>>
    /\ attrs[1].normRange = <<"each", <<<<2, 4>>>>>>
    /\ exc = "ValueError"

\* ------------------------------------------- claims: fileParser's outcome
\* C15: no data row, whatever its cells hold and however many it has, makes
\* fileParser fail on a well-formed document: parseData returns a dataset.
C15_BadRowsNeverFail == raw.wellFormed => exc = "none"

\* C16: fileParser returns one series per worksheet, in worksheet order, and
\* the i-th name is cell 3 of the first data row of the i-th worksheet,
\* whatever the other worksheets and the later rows hold.
C16_NamePerWorksheet ==
    x # None =>
      /\ Len(x[1]) = Len(raw.sheets)
      /\ Len(y[1]) = Len(raw.sheets)
      /\ Len(names[1]) = Len(raw.sheets)
      /\ \A k \in 1..Len(raw.sheets) :
           (Len(raw.sheets[k]) >= 2 /\ raw.sheets[k][2][3] # NoData) =>
             names[1][k] = raw.sheets[k][2][3]

\* C17: every series of a parsed dataset has as many x as y values and at
\* least one, also for a worksheet of a header row only or of bad rows only.
C17_SeriesNotEmpty ==
    x # None =>
      \A k \in 1..Len(x[1]) : Len(x[1][k]) = Len(y[1][k]) /\ Len(x[1][k]) > 0

\* -------------------------------------------------- claims: unit conversions
\* C18: the pair range_to_nm returns is in ascending order, lo <= hi, for
\* every range and unit, although wavenumbers and energies map the smaller
\* bound to the larger wavelength.
C18_RangeSorted ==
    (unitCall # None /\ unitCall[1].fn = "range_to_nm"
       /\ unitResult[1].err = "none") =>
      ~QLt(unitResult[1].val[1][2], unitResult[1].val[1][1])

\* The ascending wavenumber range (1, 2) has the ascending image
\* (10^7/2, 10^7) in nm.
C18_Witness ==
    /\ unitCall = Some([fn |-> "range_to_nm",
                        xRange |-> <<QNum(FromInt(1)), QNum(FromInt(2))>>,
                        w |-> 0, units |-> "wavenumbers"])
    /\ unitResult = Some([err |-> "none",
                          val |-> Some(<<Quantity(<<1, 2>>, 7, 0, 0, 0),
                                         Quantity(<<1, 1>>, 7, 0, 0, 0)>>)])

\* C19: a wavelength converted to wavenumbers, electronvolts or joules with
\* seriesFormat's formula and back with to_nm is the wavelength again, and
\* to_nm returns a value for each of these units.
C19_UnitRoundTrip ==
    (unitCall # None /\ unitCall[1].fn = "to_nm"
       /\ unitCall[1].units \in {"wavenumbers", "electronvolts", "joules"}) =>
      /\ unitResult[1].err = "none"
      /\ unitResult[1].val = Some(QNum(FromInt(unitCall[1].w)))

\* ------------------------------------------------------ claims: plot titles
\* The text of a name before its third "-" (the whole name when it has fewer).
BeforeThirdDash(name) ==
    LET dashes == {k \in 1..Len(name) : name[k] = "-"}
        third == {k \in dashes : Cardinality({d \in dashes : d < k}) = 2}
    IN  IF third = {} THEN name
        ELSE SubSeq(name, 1, (CHOOSE k \in third : TRUE) - 1)

\* The position at which the title t is first seen among the names.
FirstSeen(nameList, t) ==
    CHOOSE k \in 1..Len(nameList) :
      /\ BeforeThirdDash(nameList[k]) = t
      /\ \A j \in 1..(k - 1) : BeforeThirdDash(nameList[j]) # t

\* list holds the titles of the names, each once, in first-seen order.
GroupTitles(list, nameList) ==
    /\ {list[i] : i \in 1..Len(list)}
         = {BeforeThirdDash(nameList[k]) : k \in 1..Len(nameList)}
    /\ \A i, j \in 1..Len(list) :
         i < j => FirstSeen(nameList, list[i]) < FirstSeen(nameList, list[j])

\* C20: the group titles are the first three "-"-delimited segments of each
\* name joined by "-" (the whole name when it has fewer), without duplicates,
\* in first-seen order; setPlotTitles and Plotter.__init__ compute the same
\* list for the same names.
C20_GroupTitles ==
    /\ titles # None => GroupTitles(titles[1], names[1])
    /\ plotter # None => GroupTitles(plotter[1].plotTitles, names[1])
    /\ (titles # None /\ plotter # None) => plotter[1].plotTitles = titles[1]

\* The names A-B-C-D and A-B-C-A share the one title A-B-C, computed by both.
C20_Witness ==
    /\ names = Some(<< <<"A", "-", "B", "-", "C", "-", "D">>,
                       <<"A", "-", "B", "-", "C", "-", "A">> >>)
    /\ titles = Some(<< <<"A", "-", "B", "-", "C">> >>)
    /\ plotter # None
    /\ plotter[1].plotTitles = titles[1]

\* ------------------------------------------- claims: ranges off the domain
\* No x of trace i lies in the plot range of the call.
OutOfDomain(i) ==
    /\ attrs[1].xRange # None
    /\ \A j \in 1..Len(Parsed.wavelengths[i]) : ~InPlotRange(i)[j]

\* The call is one the documentation lets end in an error: normalize is on and
\* the window of some series holds no number.
NothingToNormalize ==
    /\ attrs[1].normalize
    /\ \E k \in 1..Len(Parsed.wavelengths) : WindowPoints(k) = {}

\* C21: a plot range entirely outside the x domain of a series makes
\* seriesFormat return that series with zero-length x and y and without
\* raising, for every display unit, with normalization on or off.
C21_OffDomainRangeGivesEmpty ==
    (nCalls = 1 /\ attrs[1].inclusion = None /\ ~NothingToNormalize) =>
      \A i \in 1..Len(Parsed.wavelengths) :
        OutOfDomain(i) => /\ exc = "none"
                          /\ Len(plotX[1][i]) = 0
                          /\ Len(plotY[1][i]) = 0

\* The part of C21 that the code keeps: a call that returns gives the series
\* off the plot range with zero length.
OffDomainEmptyWhenReturned ==
    (nCalls = 1 /\ attrs[1].inclusion = None /\ exc = "none") =>
      \A i \in 1..Len(Parsed.wavelengths) :
        OutOfDomain(i) => /\ Len(plotX[1][i]) = 0
                          /\ Len(plotY[1][i]) = 0

\* ------------------------------------------------------- claims: main plot
\* The position among all series of the k-th series the inclusion mask keeps.
RECURSIVE IncludedAt(_, _, _)
IncludedAt(mask, k, from) ==
    IF mask[from] THEN (IF k = 1 THEN from ELSE IncludedAt(mask, k - 1, from + 1))
    ELSE IncludedAt(mask, k, from + 1)

\* C23: every trace of the main plot carries the name of the series whose data
\* it shows and, when normalized, that series' peak x, for every inclusion
\* mask.
C23_TraceLabelledWithOwnSeries ==
    mainFig # None =>
      LET n == Len(Parsed.wavelengths)
          mask == IF attrs[1].inclusion = None THEN [i \in 1..n |-> TRUE]
                  ELSE attrs[1].inclusion[1]
          all == seriesFormat(Parsed.wavelengths, Parsed.absorbances,
                              [attrs[1] EXCEPT !.inclusion = None])
      IN  \A k \in 1..Len(mainFig[1]) :
            LET i == IncludedAt(mask, k, 1)
            IN  /\ mainFig[1][k].y = all.plotY[1][i]
                /\ mainFig[1][k].name = Some(Parsed.names[i])
                /\ attrs[1].normalize =>
                     /\ mainFig[1][k].peak # None
                     /\ mainFig[1][k].peak[1][1] = all.maxWLs[1][i]

\* ------------------------------------------- claims: a failing formatData
\* C26: a formatData call that raises leaves the DataWrapper as it was before
\* the call: the parsed series x and y, the last formatted result (plotX,
\* plotY, maxWLs, xAxisTitle) and the stored parameter attributes.
C26_FailedFormatLeavesWrapper ==
    [][(nCalls' = nCalls + 1 /\ exc' # "none") =>
         /\ x' = x
         /\ y' = y
         /\ <<plotX, plotY, maxWLs, xAxisTitle>>' = <<plotX, plotY, maxWLs, xAxisTitle>>
         /\ attrs' = attrs]_vars

\* The part of C26 that the code keeps: a formatData call that raises assigns
\* none of the four result attributes.
FailedFormatKeepsResult ==
    [][(nCalls' = nCalls + 1 /\ exc' # "none") =>
         <<plotX, plotY, maxWLs, xAxisTitle>>' = <<plotX, plotY, maxWLs, xAxisTitle>>]_vars

\* ---------------------------------------------- claims: the main plot tab
\* Only session s has uploaded a file so far.
Alone(s) == \A t \in Sessions \ {s} : lastHash[t] = None

\* The mask of the last formatData call of a main plot tab has one entry per
\* series of the dataset of that run, each equal to the series' include_i.
MaskMatchesDataset ==
    /\ Len(mainCall[1].inclusion) = mainCall[1].numTraces
    /\ \A i \in 1..mainCall[1].numTraces :
         i <= Len(mainCall[1].inclusion) =>
           mainCall[1].flags[i] = Some(mainCall[1].inclusion[i])

\* C22: the inclusion mask passed to formatting has exactly one entry per
\* series of the current dataset, and includeList[i] equals include_i, after
\* any sequence of toggles (main panel or sidebar) and uploads.
C22_MaskPerSeries == mainCall # None => MaskMatchesDataset

\* The part of C22 that the code keeps: it holds while one session alone has
\* uploaded files.
MaskPerSeriesAlone ==
    (mainCall # None /\ \E s \in Sessions : Alone(s)) => MaskMatchesDataset

\* The powers of the constants a value in the unit units carries.
UnitOf(units) == QUnit(UnitBound(units, 1))

\* The main plot keys of the session state ss agree: mainRange, min_value and
\* max_value are in the unit ss.units and min_value <= lo <= hi <= max_value.
RangeAgrees(ss) ==
    ss.units # Absent =>
      LET u == UnitOf(ss.units[1])
          r == ss.mainRange[1]
      IN  /\ ss.mainRange # Absent /\ ss.min_value # Absent /\ ss.max_value # Absent
          /\ QUnit(r[1]) = u /\ QUnit(r[2]) = u
          /\ QUnit(ss.min_value[1]) = u /\ QUnit(ss.max_value[1]) = u
          /\ ~QLt(r[1], ss.min_value[1])
          /\ ~QLt(r[2], r[1])
          /\ ~QLt(ss.max_value[1], r[2])

\* The session state ss holds the full domain of the dataset dw in the unit
\* units: mainRange, min_value and max_value.
FullDomainIn(ss, dw, units) ==
    LET ends == DomainEnds(dw)
        full == DisplayRange(units, ends[1], ends[2])
    IN  /\ ss.units = Some(units)
        /\ ss.mainRange = Some(full)
        /\ ss.min_value = Some(full[1])
        /\ ss.max_value = Some(full[2])

MainKeys(ss) == <<ss.units, ss.mainRange, ss.minZero>>

\* The step delivers a main plot event of session s: its selectbox takes
\* another unit, or a stored unit, plot range or floor-at-zero flag is
\* replaced by another.
MainEvent(s) ==
    \/ unitsSelection'[s] # unitsSelection[s]
    \/ /\ UNCHANGED <<upload, unitsSelection>>
       /\ View(s).units # Absent /\ View(s)'.units # Absent
       /\ MainKeys(View(s))' # MainKeys(View(s))

MainEventsKeepPerSeriesAlone ==
    [][\A s \in Sessions :
         (MainEvent(s) /\ Alone(s)) => PerSeries(View(s))' = PerSeries(View(s))]_vars

====
